---- MODULE Spec2Model ----
(***************************************************************************)
(* A model of audiowave.py: the AudioWave class (synthesis by new, copy,   *)
(* __add__, scale, __mul__, append, play, export_wav) and the              *)
(* WaveParamHandler it uses.                                               *)
(*                                                                         *)
(* Python objects are modelled as a heap.  objs maps each caller variable  *)
(* (a slot) to the AudioWave bound to it; the field wave of an object is a *)
(* REFERENCE to a Python list, and lists maps every list reference to the  *)
(* list's contents, so that two objects sharing one list is a state the    *)
(* model can be in.  Slot 0 (Aux) is the local variable aux / copy_wave /  *)
(* normalized_other_wave of the method that is running.                    *)
(*                                                                         *)
(* Python floats are modelled as exact rationals <<num, den>> in lowest    *)
(* terms with den > 0, so x * (1 / s) is x / s.                            *)
(***************************************************************************)
EXTENDS Integers, Sequences, FiniteSets, TLC

\* Number of caller variables that hold AudioWaves.
MaxObj == 2
\* Number of method calls in a run.
MaxCalls == 4

------------------------------------------------------------------------
\* Exact rational arithmetic (the values of Python's float and int).

Abs(n) == IF n < 0 THEN -n ELSE n

RECURSIVE GCD(_, _)
GCD(a, b) == IF b = 0 THEN a ELSE GCD(b, a % b)

\* The rational n/d (d # 0) in lowest terms with a positive denominator.
Rat(n, d) ==
    LET g == GCD(Abs(n), Abs(d))
        s == IF d < 0 THEN -1 ELSE 1
    IN  <<(s * n) \div g, (s * d) \div g>>

Whole(n) == <<n, 1>>
Zero == <<0, 1>>
One == <<1, 1>>

RAdd(x, y) == Rat(x[1] * y[2] + y[1] * x[2], x[2] * y[2])
RMul(x, y) == Rat(x[1] * y[1], x[2] * y[2])
RLt(x, y) == x[1] * y[2] < y[1] * x[2]
RLe(x, y) == x[1] * y[2] <= y[1] * x[2]
RMax(x, y) == IF RLt(x, y) THEN y ELSE x
RAbs(x) == <<Abs(x[1]), x[2]>>
\* 1 / x for x # 0 (Python raises ZeroDivisionError for x = 0).
RInv(x) == Rat(x[2], x[1])
\* int(x) for x >= 0, and x % 1.
RTrunc(x) == x[1] \div x[2]
RFrac(x) == <<x[1] % x[2], x[2]>>

------------------------------------------------------------------------
\* Waveform and parameter functions a caller can pass (Callable[[float], float]).

\* Shape functions of period 1.
Waveforms == {"saw", "square"}

Shape(w, x) ==
    IF w = "saw"
    THEN RAdd(RMul(Whole(2), RFrac(x)), Whole(-1))
    ELSE IF RLt(RFrac(x), <<1, 2>>) THEN One ELSE Whole(-1)

\* Time-dependent parameters: a rising frequency and a decaying amplitude.
Fn(name, t) ==
    IF name = "chirp" THEN RAdd(One, t) ELSE RInv(RAdd(One, t))

\* A WaveParam argument: a number, a function, or anything else.
Num(v) == [kind |-> "num", val |-> v, fn |-> "none"]
Func(f) == [kind |-> "fn", val |-> Zero, fn |-> f]
Bad == [kind |-> "bad", val |-> Zero, fn |-> "none"]

\* WaveParamHandler.__init__: TRUE when it raises TypeError.
WaveParamHandlerRaises(content) == content.kind \notin {"num", "fn"}

\* callable(freq.content)
Callable(content) == content.kind = "fn"

\* WaveParamHandler.__call__
WaveParamHandlerCall(content, arg) ==
    IF content.kind = "num" THEN content.val ELSE Fn(content.fn, arg)

------------------------------------------------------------------------
\* The heap.

Aux == 0
Slots == 1..MaxObj
Refs == 0..MaxObj
ListIds == 1..(MaxObj + 2)

\* A variable bound to no AudioWave.
Dead == [live |-> FALSE, wave |-> 0, samplerate |-> 0,
         duration |-> Zero, significance |-> 0]

VARIABLES objs, lists, last, sink, calls

vars == <<objs, lists, last, sink, calls>>

\* The references some live object holds.
Held(h) == {h.objs[o].wave : o \in {r \in Refs : h.objs[r].live}}

\* A list reference no live object holds: a newly allocated list.
Fresh(h) == CHOOSE l \in ListIds \ Held(h) :
                \A k \in ListIds \ Held(h) : l <= k

\* The contents of the list self.wave.
Wave(h, self) == h.lists[h.objs[self].wave]

\* List references are renamed after a call so that a list is named by the
\* first variable whose object holds it; lists nothing holds are collected.
\* The method's local object goes out of scope.
FirstHolder(h, l) ==
    CHOOSE o \in Slots :
        /\ h.objs[o].live /\ h.objs[o].wave = l
        /\ \A p \in Slots : (h.objs[p].live /\ h.objs[p].wave = l) => o <= p

Collect(h) ==
    [objs |-> [o \in Refs |->
                  IF o \in Slots /\ h.objs[o].live
                  THEN [h.objs[o] EXCEPT !.wave = FirstHolder(h, @)]
                  ELSE Dead],
     lists |-> [l \in ListIds |->
                  IF l \in Slots /\ h.objs[l].live
                     /\ FirstHolder(h, h.objs[l].wave) = l
                  THEN Wave(h, l)
                  ELSE <<>>]]

\* dst = <the object the method returned in its local variable>
Bind(h, dst) == [h EXCEPT !.objs[dst] = h.objs[Aux], !.objs[Aux] = Dead]

Heap == [objs |-> objs, lists |-> lists]

------------------------------------------------------------------------
\* AudioWave.new

\* np.linspace(0, stop, num): num points from 0 to stop, both ends included.
linspace(stop, num) ==
    [i \in 1..num |->
        IF num = 1 THEN Zero ELSE RMul(Whole(i - 1), RMul(stop, <<1, num - 1>>))]

\* The time points the constant-frequency loop visits.
ConstTimes(duration, samplerate) ==
    linspace(duration, RTrunc(RMul(Whole(samplerate), duration)))

\* The constant-frequency branch: one sample per time point.
ConstWave(freq, amp, duration, samplerate, waveform) ==
    LET times == ConstTimes(duration, samplerate)
    IN  [i \in 1..Len(times) |->
            RMul(Shape(waveform, RMul(times[i], freq.val)),
                 WaveParamHandlerCall(amp, times[i]))]

\* The while loop of the time-varying branch (a left Riemann sum of freq).
RECURSIVE Riemann(_, _, _, _, _, _, _, _)
Riemann(freq, amp, waveform, duration, delta_time, time, csumfreq, wave) ==
    IF RLt(time, duration)
    THEN LET c == RAdd(csumfreq,
                       RMul(WaveParamHandlerCall(freq, time), delta_time))
         IN  Riemann(freq, amp, waveform, duration, delta_time,
                     RAdd(time, delta_time), c,
                     Append(wave, RMul(Shape(waveform, c),
                                       WaveParamHandlerCall(amp, time))))
    ELSE wave

\* samplerate < 0 or duration < 0: the argument check of new.
NewRejects(duration, samplerate) == RLt(duration, Zero) \/ samplerate < 0

\* self.new(freq, amp, duration, samplerate, waveform): the heap after the
\* call and how the call ended.
new(h, self, freq, amp, duration, samplerate, waveform) ==
    IF WaveParamHandlerRaises(freq) \/ WaveParamHandlerRaises(amp)
    THEN [h |-> h, status |-> "TypeError"]
    ELSE IF NewRejects(duration, samplerate)
    THEN [h |-> h, status |-> "ValueError"]
    ELSE
      LET l == Fresh(h)
          init == [live |-> TRUE, wave |-> l, samplerate |-> samplerate,
                   duration |-> duration, significance |-> 1]
          h1 == [objs |-> [h.objs EXCEPT ![self] = init],
                 lists |-> [h.lists EXCEPT ![l] = <<>>]]
      IN  IF ~Callable(freq)
          THEN [h |-> [h1 EXCEPT !.lists[l] =
                          ConstWave(freq, amp, duration, samplerate, waveform)],
                status |-> "ok"]
          ELSE IF samplerate = 0
          THEN [h |-> h1, status |-> "ZeroDivisionError"]
          ELSE [h |-> [h1 EXCEPT !.lists[l] =
                          Riemann(freq, amp, waveform, duration,
                                  <<1, samplerate>>, Zero, Zero, <<>>)],
                status |-> "ok"]

------------------------------------------------------------------------
\* The wave algebra.  Each method takes the heap and gives the heap after it;
\* a method that creates an AudioWave leaves it in Aux.

\* A copy that takes the list of self instead of duplicating it.
copyShared(h, self) ==
    [objs |-> [h.objs EXCEPT ![Aux] = h.objs[self]], lists |-> h.lists]

\* self.copy
copy(h, self) ==
    LET l == Fresh(h)
    IN  [objs |-> [h.objs EXCEPT ![Aux] = [h.objs[self] EXCEPT !.wave = l]],
         lists |-> [h.lists EXCEPT ![l] = Wave(h, self)]]

\* A check that compares the durations instead of the samplerates.
MismatchDuration(h, self, other) ==
    h.objs[other].duration # h.objs[self].duration

\* other.samplerate != self.samplerate: add and append raise ValueError.
Mismatch(h, self, other) ==
    h.objs[other].samplerate # h.objs[self].samplerate

\* A sum that stops at the end of the shorter list.
SumWaveShort(w1, w2) ==
    LET minlen == IF Len(w1) < Len(w2) THEN Len(w1) ELSE Len(w2)
    IN  [i \in 1..minlen |-> RAdd(w1[i], w2[i])]

\* The element-wise sum, 0 standing for an index out of range.
SumWave(w1, w2) ==
    LET maxlen == IF Len(w1) < Len(w2) THEN Len(w2) ELSE Len(w1)
    IN  [i \in 1..maxlen |->
            RAdd(IF i <= Len(w1) THEN w1[i] ELSE Zero,
                 IF i <= Len(w2) THEN w2[i] ELSE Zero)]

\* A sum that takes the larger significance.
AddSignificanceMax(s1, s2) == IF s1 < s2 THEN s2 ELSE s1

\* The significance of a sum: the voices of both operands.
AddSignificance(s1, s2) == s1 + s2

\* self + other
add(h, self, other) ==
    IF Mismatch(h, self, other)
    THEN [h |-> h, status |-> "ValueError"]
    ELSE
      LET l == Fresh(h)
          aux == [live |-> TRUE, wave |-> l,
                  samplerate |-> h.objs[self].samplerate,
                  duration |-> RMax(h.objs[self].duration, h.objs[other].duration),
                  significance |->
                      AddSignificance(h.objs[self].significance,
                                      h.objs[other].significance)]
      IN  [h |-> [objs |-> [h.objs EXCEPT ![Aux] = aux],
                  lists |-> [h.lists EXCEPT
                                ![l] = SumWave(Wave(h, self), Wave(h, other))]],
           status |-> "ok"]

\* self.scale(factor): self.wave is rebound to a new list.
scale(h, self, factor) ==
    LET l == Fresh(h)
        w == Wave(h, self)
    IN  [objs |-> [h.objs EXCEPT ![self].wave = l],
         lists |-> [h.lists EXCEPT
                       ![l] = [i \in 1..Len(w) |-> RMul(w[i], factor)]]]

\* A product that scales self and copies it afterwards.
mulInPlace(h, self, factor) == copy(scale(h, self, factor), self)

\* self * factor
mul(h, self, factor) == scale(copy(h, self), Aux, factor)

\* self.wave += other.wave: the list self.wave is extended in place.
Extend(h, self, other) ==
    [h EXCEPT !.lists[h.objs[self].wave] = Wave(h, self) \o Wave(h, other)]

\* A branch that appends other as it is, without normalizing it.
AppendOtherRaw(h, self, other, keep_significance_of_other) ==
    IF keep_significance_of_other
    THEN Extend(mul(h, other, RInv(Whole(h.objs[other].significance))),
                self, Aux)
    ELSE Extend([h EXCEPT !.objs[other].significance = 1], self, other)

\* A branch that normalizes other in place whatever the flag says.
AppendOtherInPlace(h, self, other, keep_significance_of_other) ==
    Extend([scale(h, other, RInv(Whole(h.objs[other].significance)))
               EXCEPT !.objs[other].significance = 1],
           self, other)

\* The branch of append on keep_significance_of_other: a normalized copy of
\* other is appended, or other is normalized in place and then appended.
AppendOther(h, self, other, keep_significance_of_other) ==
    LET k == RInv(Whole(h.objs[other].significance))
    IN  IF keep_significance_of_other
        THEN Extend(mul(h, other, k), self, Aux)
        ELSE Extend([scale(h, other, k) EXCEPT !.objs[other].significance = 1],
                    self, other)

\* self.append(other, new_significance, keep_significance_of_other).  The
\* divisions 1 / significance raise ZeroDivisionError after the statements
\* before them have run.
append(h, self, other, new_significance, keep_significance_of_other) ==
    IF Mismatch(h, self, other)
    THEN [h |-> h, status |-> "ValueError"]
    ELSE
      LET h1 == [h EXCEPT !.objs[self].duration =
                     RAdd(@, h.objs[other].duration)]
      IN  IF h1.objs[self].significance = 0
          THEN [h |-> h1, status |-> "ZeroDivisionError"]
          ELSE
            LET h2 == scale(h1, self, RInv(Whole(h1.objs[self].significance)))
            IN  IF h2.objs[other].significance = 0
                THEN [h |-> h2, status |-> "ZeroDivisionError"]
                ELSE [h |-> [AppendOther(h2, self, other,
                                         keep_significance_of_other)
                                EXCEPT !.objs[self].significance =
                                           new_significance],
                      status |-> "ok"]

\* aux = self * (1 / self.significance), the buffer play and export_wav
\* hand to the sound device and to the file writer.
Normalized(h, self) ==
    IF h.objs[self].significance = 0
    THEN [h |-> h, status |-> "ZeroDivisionError"]
    ELSE [h |-> mul(h, self, RInv(Whole(h.objs[self].significance))),
          status |-> "ok"]

------------------------------------------------------------------------
\* The calls a program makes.

\* The arguments new is called with: accepted ones, and one call for each
\* way an argument can be unacceptable.
Freqs == {Num(One), Func("chirp")}

NewArg(f, a, d, r, w) ==
    [freq |-> f, amp |-> a, duration |-> d, samplerate |-> r, waveform |-> w]

NewArgs ==
    {NewArg(f, Num(One), One, r, "saw") : f \in Freqs, r \in {1, 2}}
    \cup {NewArg(f, Num(One), <<3, 2>>, 2, "saw") : f \in Freqs}
    \cup {NewArg(Num(One), Num(One), <<3, 2>>, 2, "square")}
    \cup {NewArg(f, Func("decay"), <<3, 2>>, 2, "saw") : f \in Freqs}
    \cup {NewArg(Num(One), Num(One), Zero, 1, "saw")}
    \cup {NewArg(f, Num(One), Whole(-1), 1, "saw") : f \in Freqs}
    \cup {NewArg(f, Num(One), One, r, "saw") : f \in Freqs, r \in {-1, 0}}
    \cup {NewArg(Bad, Num(One), One, 1, "saw"),
          NewArg(Num(One), Bad, One, 1, "saw")}

\* The factors scale and __mul__ are called with.
Factors == {Whole(2), <<-1, 2>>}

\* The values append is given as new_significance.
Significances == {0, 1, 2}

\* The fields of last for arguments the method called does not take.
NoArg == NewArg(Bad, Bad, Zero, 0, "none")

\* The method called last, how it ended, the variables it was called on (0
\* where it has no such operand) and its other arguments.
Call(op, status, self, other, dst) ==
    [op |-> op, status |-> status, self |-> self, other |-> other,
     dst |-> dst, arg |-> NoArg, factor |-> Zero, new_significance |-> 0,
     keep |-> FALSE]

\* What play and export_wav hand over: nothing, or a buffer and its rate.
NoSink == [rate |-> 0, data |-> <<>>, used |-> FALSE]

Init ==
    /\ objs = [o \in Refs |-> Dead]
    /\ lists = [l \in ListIds |-> <<>>]
    /\ last = Call("none", "ok", 0, 0, 0)
    /\ sink = NoSink
    /\ calls = 0

\* The heap a call leaves, its local variables gone.
Store(h) ==
    /\ objs' = Collect(h).objs
    /\ lists' = Collect(h).lists
    /\ calls' = calls + 1

\* v.new(freq, amp, duration, samplerate, waveform) on the AudioWave of a
\* variable, or on a newly constructed AudioWave() the variable is bound to.
New(self, a) ==
    LET r == new(Heap, self, a.freq, a.amp, a.duration, a.samplerate, a.waveform)
    IN  /\ calls < MaxCalls
        /\ Store(r.h)
        /\ last' = [Call("new", r.status, self, 0, 0) EXCEPT !.arg = a]
        /\ sink' = NoSink

\* dst = self.copy
Copy(self, dst) ==
    /\ calls < MaxCalls
    /\ objs[self].live
    /\ Store(Bind(copy(Heap, self), dst))
    /\ last' = Call("copy", "ok", self, 0, dst)
    /\ sink' = NoSink

\* dst = self + other
Add(self, other, dst) ==
    LET r == add(Heap, self, other)
    IN  /\ calls < MaxCalls
        /\ objs[self].live /\ objs[other].live
        /\ Store(IF r.status = "ok" THEN Bind(r.h, dst) ELSE r.h)
        /\ last' = Call("add", r.status, self, other, dst)
        /\ sink' = NoSink

\* self.scale(factor)
Scale(self, factor) ==
    /\ calls < MaxCalls
    /\ objs[self].live
    /\ Store(scale(Heap, self, factor))
    /\ last' = [Call("scale", "ok", self, 0, 0) EXCEPT !.factor = factor]
    /\ sink' = NoSink

\* dst = self * factor
Mul(self, factor, dst) ==
    /\ calls < MaxCalls
    /\ objs[self].live
    /\ Store(Bind(mul(Heap, self, factor), dst))
    /\ last' = [Call("mul", "ok", self, 0, dst) EXCEPT !.factor = factor]
    /\ sink' = NoSink

\* self.append(other, new_significance, keep_significance_of_other)
AppendCall(self, other, new_significance, keep) ==
    LET r == append(Heap, self, other, new_significance, keep)
    IN  /\ calls < MaxCalls
        /\ objs[self].live /\ objs[other].live
        /\ Store(r.h)
        /\ last' = [Call("append", r.status, self, other, 0) EXCEPT
                       !.new_significance = new_significance, !.keep = keep]
        /\ sink' = NoSink

\* The buffer and the rate play and export_wav pass on.
Output(r) ==
    IF r.status = "ok"
    THEN [rate |-> r.h.objs[Aux].samplerate, data |-> Wave(r.h, Aux),
          used |-> TRUE]
    ELSE NoSink

\* self.play
Play(self) ==
    LET r == Normalized(Heap, self)
    IN  /\ calls < MaxCalls
        /\ objs[self].live
        /\ Store(r.h)
        /\ last' = Call("play", r.status, self, 0, 0)
        /\ sink' = Output(r)

\* self.export_wav(filename)
ExportWav(self) ==
    LET r == Normalized(Heap, self)
    IN  /\ calls < MaxCalls
        /\ objs[self].live
        /\ Store(r.h)
        /\ last' = Call("export_wav", r.status, self, 0, 0)
        /\ sink' = Output(r)

Next ==
    \/ \E self \in Slots, a \in NewArgs : New(self, a)
    \/ \E self \in Slots, dst \in Slots : Copy(self, dst)
    \/ \E self \in Slots, other \in Slots, dst \in Slots : Add(self, other, dst)
    \/ \E self \in Slots, factor \in Factors : Scale(self, factor)
    \/ \E self \in Slots, factor \in Factors, dst \in Slots :
           Mul(self, factor, dst)
    \/ \E self \in Slots, other \in Slots, s \in Significances,
          keep \in BOOLEAN : AppendCall(self, other, s, keep)
    \/ \E self \in Slots : Play(self)
    \/ \E self \in Slots : ExportWav(self)

Spec == Init /\ [][Next]_vars

\* Mixing only: synthesis, copy, + and append with new_significance >= 1,
\* then playing or exporting, and no scale or * by a caller's factor.  Every
\* waveform in Waveforms and every amplitude in NewArgs has magnitude at most
\* 1, so every synthesized sample has.
NextMix ==
    \/ \E self \in Slots, a \in NewArgs : New(self, a)
    \/ \E self \in Slots, dst \in Slots : Copy(self, dst)
    \/ \E self \in Slots, other \in Slots, dst \in Slots : Add(self, other, dst)
    \/ \E self \in Slots, other \in Slots, s \in Significances \ {0},
          keep \in BOOLEAN : AppendCall(self, other, s, keep)
    \/ \E self \in Slots : Play(self)
    \/ \E self \in Slots : ExportWav(self)

SpecMix == Init /\ [][NextMix]_vars

------------------------------------------------------------------------
\* Properties.

\* The samples of the AudioWave of variable o, before and after a step (none
\* when the variable holds no AudioWave).
Samples(o) == IF objs[o].live THEN lists[objs[o].wave] ELSE <<>>
SamplesAfter(o) == IF objs'[o].live THEN lists'[objs'[o].wave] ELSE <<>>

\* The AudioWave of variable o is as it was: its fields and its samples.
Same(o) == objs'[o] = objs[o] /\ SamplesAfter(o) = Samples(o)

\* Every sample of w divided by the integer n # 0.
Divided(w, n) == [i \in 1..Len(w) |-> Rat(w[i][1], w[i][2] * n)]

\* The step is a call of method op.
Called(op) == calls' = calls + 1 /\ last'.op = op

\* C1: new with duration < 0 or samplerate <= 0, and a frequency and an
\* amplitude that are numbers or functions, raises ValueError (the
\* InvalidSynthesisArgument error), whether the frequency is constant or
\* not, and creates or changes no AudioWave.
C1_InvalidArgumentsRejected ==
    [][(/\ Called("new")
        /\ ~WaveParamHandlerRaises(last'.arg.freq)
        /\ ~WaveParamHandlerRaises(last'.arg.amp)
        /\ (RLt(last'.arg.duration, Zero) \/ last'.arg.samplerate <= 0))
       => (last'.status = "ValueError" /\ objs' = objs /\ lists' = lists)]_vars

\* C2: self + other of two AudioWaves of equal samplerate is an AudioWave
\* whose samples are the element-wise sum over the longer length, a missing
\* sample counting 0, whose significance is the sum of the significances,
\* whose duration is the larger duration and whose samplerate is the shared
\* one; other + self has the same samples and significance.
C2_AddSums ==
    [][(/\ Called("add")
        /\ objs[last'.self].samplerate = objs[last'.other].samplerate)
       => LET self == last'.self
              other == last'.other
              a == Samples(self)
              b == Samples(other)
              r == objs'[last'.dst]
              w == SamplesAfter(last'.dst)
              swapped == add(Heap, other, self).h
          IN  /\ last'.status = "ok"
              /\ r.live
              /\ Len(w) >= Len(a) /\ Len(w) >= Len(b)
              /\ Len(w) \in {Len(a), Len(b)}
              /\ \A i \in 1..Len(w) :
                    w[i] = RAdd(IF i <= Len(a) THEN a[i] ELSE Zero,
                                IF i <= Len(b) THEN b[i] ELSE Zero)
              /\ r.significance =
                    objs[self].significance + objs[other].significance
              /\ RLe(objs[self].duration, r.duration)
              /\ RLe(objs[other].duration, r.duration)
              /\ r.duration \in {objs[self].duration, objs[other].duration}
              /\ r.samplerate = objs[self].samplerate
              /\ Wave(swapped, Aux) = w
              /\ swapped.objs[Aux].significance = r.significance]_vars

\* C2 happens: a sum of a buffer of length 2 and one of length 3.
C2_Witness ==
    /\ last.op = "add" /\ last.status = "ok"
    /\ last.self # last.other /\ last.dst = last.other
    /\ Len(Samples(last.self)) = 2
    /\ Len(Samples(last.dst)) = 3
    /\ objs[last.dst].significance = 2

\* C3: self.append(other, s) in the default mode, on two different AudioWaves
\* of equal samplerate and significance >= 1, leaves in self the old samples
\* of self divided by its old significance followed by the old samples of
\* other divided by its old significance, self.significance = s (1 by
\* default), self.duration the sum of the durations, and other with its
\* samples divided by its old significance and significance 1.
C3_AppendDefault ==
    [][(/\ Called("append")
        /\ ~last'.keep
        /\ last'.self # last'.other
        /\ objs[last'.self].samplerate = objs[last'.other].samplerate
        /\ objs[last'.self].significance >= 1
        /\ objs[last'.other].significance >= 1)
       => LET self == last'.self
              other == last'.other
          IN  /\ last'.status = "ok"
              /\ SamplesAfter(self) =
                    Divided(Samples(self), objs[self].significance)
                    \o Divided(Samples(other), objs[other].significance)
              /\ objs'[self].significance = last'.new_significance
              /\ objs'[self].duration =
                    RAdd(objs[self].duration, objs[other].duration)
              /\ SamplesAfter(other) =
                    Divided(Samples(other), objs[other].significance)
              /\ objs'[other].significance = 1]_vars

\* C3 happens: a default append with new_significance 1 of a buffer of
\* length 3 to one of length 2 and another duration.
C3_Witness ==
    /\ last.op = "append" /\ last.status = "ok" /\ ~last.keep
    /\ last.self # last.other
    /\ last.new_significance = 1
    /\ Len(Samples(last.other)) = 3
    /\ Len(Samples(last.self)) = 5
    /\ SubSeq(Samples(last.self), 3, 5) = Samples(last.other)
    /\ objs[last.self].duration = <<5, 2>>
    /\ objs[last.self].significance = 1

\* C4 as stated: a successful self.append(other, s, True) leaves the samples
\* and the significance of the object passed as other as they were, whatever
\* object that is.
C4_KeepLeavesOtherAnyObject ==
    [][(Called("append") /\ last'.keep /\ last'.status = "ok")
       => /\ SamplesAfter(last'.other) = Samples(last'.other)
          /\ objs'[last'.other].significance =
                objs[last'.other].significance]_vars

\* C4 as amended: a successful self.append(other, s, True) in which other is
\* an object other than self leaves the samples and the significance of
\* other as they were.
C4_KeepLeavesOther ==
    [][(/\ Called("append") /\ last'.keep /\ last'.status = "ok"
        /\ last'.other # last'.self)
       => /\ SamplesAfter(last'.other) = Samples(last'.other)
          /\ objs'[last'.other].significance =
                objs[last'.other].significance]_vars

\* C4 happens: a keeping append of another object that is a sum of two
\* voices and not empty, so that normalizing it in place would show.
C4_Witness ==
    /\ last.op = "append" /\ last.status = "ok" /\ last.keep
    /\ last.other # last.self
    /\ objs[last.other].significance = 2
    /\ \E i \in 1..Len(Samples(last.other)) : Samples(last.other)[i] # Zero

\* C5: every AudioWave has samplerate > 0, duration >= 0 and
\* significance >= 1.
C5_FieldsInRange ==
    \A o \in Slots :
        objs[o].live =>
            /\ objs[o].samplerate > 0
            /\ RLe(Zero, objs[o].duration)
            /\ objs[o].significance >= 1

\* C6: + and append on two AudioWaves of different samplerate raise
\* ValueError (the SampleRateMismatch error), return nothing and leave every
\* field and the samples of both operands as they were.
C6_MismatchRaisesFirst ==
    [][(/\ Called("add") \/ Called("append")
        /\ objs[last'.self].samplerate # objs[last'.other].samplerate)
       => /\ last'.status = "ValueError"
          /\ Same(last'.self) /\ Same(last'.other)
          /\ objs' = objs /\ lists' = lists]_vars

\* C6 happens: append on two AudioWaves of different samplerate, both with
\* samples and self with a duration the append would have changed.
C6_Witness ==
    /\ last.op = "append" /\ last.status = "ValueError"
    /\ objs[last.self].samplerate # objs[last.other].samplerate
    /\ Len(Samples(last.self)) >= 1 /\ Len(Samples(last.other)) >= 1
    /\ objs[last.other].duration # Zero

\* C7: new with a constant frequency, duration >= 0 and samplerate > 0 gives
\* N = floor(samplerate * duration) samples and significance 1; sample i is
\* shape(t_i * frequency) * amplitude(t_i) at N time points t_i that are
\* evenly spaced, start at 0 and are all less than duration.
C7_ConstantMode ==
    [][(/\ Called("new")
        /\ last'.arg.freq.kind = "num"
        /\ ~WaveParamHandlerRaises(last'.arg.amp)
        /\ RLe(Zero, last'.arg.duration)
        /\ last'.arg.samplerate > 0)
       => LET a == last'.arg
              N == RTrunc(RMul(Whole(a.samplerate), a.duration))
              t == ConstTimes(a.duration, a.samplerate)
              w == SamplesAfter(last'.self)
          IN  /\ last'.status = "ok"
              /\ objs'[last'.self].significance = 1
              /\ Len(w) = N /\ Len(t) = N
              /\ N >= 1 => t[1] = Zero
              /\ \A i \in 1..N : RLt(t[i], a.duration)
              /\ \A i \in 1..(N - 2) :
                    RAdd(t[i + 1], RMul(Whole(-1), t[i]))
                    = RAdd(t[i + 2], RMul(Whole(-1), t[i + 1]))
              /\ \A i \in 1..N :
                    w[i] = RMul(Shape(a.waveform, RMul(t[i], a.freq.val)),
                                WaveParamHandlerCall(a.amp, t[i]))]_vars

\* C8: copy, *, +, play and export_wav change no AudioWave that exists (the
\* variable the result is bound to apart), and self * factor is a new
\* AudioWave with the fields of self and each sample of self times factor.
C8_OnlyScaleAndAppendMutate ==
    [][/\ (Called("copy") \/ Called("mul") \/ Called("add"))
          => \A o \in Slots \ {last'.dst} : Same(o)
       /\ (Called("play") \/ Called("export_wav"))
          => \A o \in Slots : Same(o)
       /\ Called("mul")
          => LET self == last'.self
                 r == objs'[last'.dst]
                 w == SamplesAfter(last'.dst)
             IN  /\ r.live
                 /\ last'.dst # self => r.wave # objs'[self].wave
                 /\ r.samplerate = objs[self].samplerate
                 /\ r.duration = objs[self].duration
                 /\ r.significance = objs[self].significance
                 /\ Len(w) = Len(Samples(self))
                 /\ \A i \in 1..Len(w) :
                       w[i] = RMul(Samples(self)[i], last'.factor)]_vars

\* C8 happens: a product bound to another variable than its operand, which
\* has samples the factor changes.
C8_Witness ==
    /\ last.op = "mul" /\ last.dst # last.self
    /\ Len(Samples(last.self)) >= 2
    /\ Samples(last.dst) # Samples(last.self)

\* No two AudioWaves hold the same list.
NoSharedWave ==
    \A o1 \in Slots, o2 \in Slots :
        (o1 # o2 /\ objs[o1].live /\ objs[o2].live)
            => objs[o1].wave # objs[o2].wave

\* C9: no two AudioWaves ever share a list of samples, and scale and append
\* change the samples of no AudioWave but the ones they are called on.
C9_NoSharedSamples ==
    [][/\ NoSharedWave'
       /\ Called("scale")
          => \A o \in Slots \ {last'.self} : SamplesAfter(o) = Samples(o)
       /\ Called("append")
          => \A o \in Slots \ {last'.self, last'.other} :
                 SamplesAfter(o) = Samples(o)]_vars

\* C9 happens: after self.append(other) in the default mode had put the
\* samples of other behind those of self, other is scaled and self still
\* ends with the samples other had.
C9_Witness ==
    /\ last.op = "scale"
    /\ \E o \in Slots \ {last.self} :
          /\ objs[o].live
          /\ Len(Samples(o)) = 2 * Len(Samples(last.self))
          /\ Len(Samples(last.self)) >= 2
          /\ objs[o].duration = RMul(Whole(2), objs[last.self].duration)
          /\ \E i \in 1..Len(Samples(last.self)) :
                /\ Samples(last.self)[i] =
                      RMul(last.factor,
                           Samples(o)[Len(Samples(last.self)) + i])
                /\ Samples(last.self)[i] # Zero

\* C10: when only new, copy, +, append with new_significance >= 1, play and
\* export_wav are called and every synthesized sample has magnitude at most
\* 1, every sample of every AudioWave has magnitude at most the significance
\* of its AudioWave, and every sample handed to the sound device or the file
\* writer has magnitude at most 1.
C10_WithinSignificance ==
    /\ \A o \in Slots :
          objs[o].live =>
              \A i \in 1..Len(Samples(o)) :
                  RLe(RAbs(Samples(o)[i]), Whole(objs[o].significance))
    /\ \A i \in 1..Len(sink.data) : RLe(RAbs(sink.data[i]), One)

\* C10 happens: a sum of two voices with a sample of magnitude 2, its
\* significance, is played, and the sample is handed over with magnitude 1.
C10_Witness ==
    /\ last.op = "play" /\ last.status = "ok" /\ sink.used
    /\ objs[last.self].significance = 2
    /\ \E i \in 1..Len(Samples(last.self)) :
          /\ RAbs(Samples(last.self)[i]) = Whole(2)
          /\ RAbs(sink.data[i]) = One

====
